---- MODULE Spec2Model ----
\* A model of optlam.js: an interaction-net normalizer for the lambda
\* calculus (node store, encoder, cursor-driven reducer, decoder), together
\* with the naive tree-substitution reducer of lambda_calculus.js.
EXTENDS Integers, Sequences, FiniteSets, TLC

VARIABLES
    next_id,    \* optlam.js: next id to be allocated
    memory,     \* optlam.js: the memory buffer (a flat array of cells, 9 per node)
    memory_nan, \* optlam.js: the property memory[NaN] of the memory buffer
    garbage,    \* optlam.js: indices of collected nodes, to be reclaimed
    stats,      \* optlam.js: iterations / applications / used_memory
    suite,      \* which family of input terms the caller draws from
    calls,      \* number of reduce(term) calls the caller has made
    pass,       \* number of net_reduce calls made on the current net
    term,       \* the argument of the current reduce(term) call
    history,    \* ghost: the arguments of the earlier reduce(term) calls
    net,        \* the root handle returned by net_encode
    discarded,  \* ghost: nodes allocated while encoding a discarded argument
    pc,         \* position of the caller / of the running function
    rd,         \* locals of net_reduce
    dc,         \* locals of net_decode
    results     \* terms returned by net_decode for the current net, oldest first

vars == <<next_id, memory, memory_nan, garbage, stats, suite, calls, pass, term, history,
          net, discarded, pc, rd, dc, results>>

-----------------------------------------------------------------------------
\* Bounds of the model.

\* Largest number of constructors of an enumerated closed input term.
MaxSize == 7
\* Largest Church numeral used to build the input terms with sharing.
MaxNat == 2
\* Cap on stats.iterations for the enumerated inputs: net_reduce may run
\* forever on untypable terms.
MaxIter == 200
\* The same cap for the exp_mod inputs, which need thousands of iterations.
MaxExpModIter == 3000
\* Cap on the recursion depth of the naive reducer (it may not terminate).
MaxFuel == 60
\* Largest number of constructors of a term of the two-call scenario.
MaxReuseSize == 5
\* Largest number of constructors of a term handed to net_encode directly.
MaxOpenSize == 5
\* Number of binders such a term may refer to outside itself.
MaxFree == 2

-----------------------------------------------------------------------------
\* JavaScript's undefined (a read outside an array, a missing map entry).
UNDEF == -9

\* Node types of optlam.js.
ROT == 0
LAM == 1
APP == 2
DUP == 4
ERA == 5

\* Term types of lambda_calculus.js.
L_VAR == 1
L_LAM == 2
L_APP == 3

\* null (net_decode's initial retur, exit and left).
NULL == <<>>

\* lambda_calculus.js constructors; a term is a tuple headed by its type.
Var(index) == <<L_VAR, index>>
Lam(body) == <<L_LAM, body>>
App(left, right) == <<L_APP, left, right>>

-----------------------------------------------------------------------------
\* The node store.  A store s is the record of the module-level variables
\* [next_id, memory, memory_nan, garbage, stats]; cell i of the JavaScript
\* array is s.memory[i+1].  An index computed from undefined is NaN: a read
\* or a write of memory[NaN] is a read or a write of the array's property
\* of that name, which s.memory_nan holds (undefined until first written).

\* The element of a singleton set.
TheOne(S) == CHOOSE x \in S : TRUE

\* F(x), with x computed once, before the body of F.
Then(x, F(_)) == TheOne({F(y) : y \in {x}})

Cell(mem, i) == IF i >= 0 /\ i < Len(mem) THEN mem[i + 1] ELSE UNDEF

\* memory[i] = v for an index i >= 0: a write past the end of a JavaScript
\* array lengthens it, and the cells skipped read as undefined.
SetCell(mem, i, v) ==
    IF i < Len(mem) THEN [mem EXCEPT ![i + 1] = v]
    ELSE mem \o [k \in 1..(i - Len(mem)) |-> UNDEF] \o <<v>>

Last(q) == q[Len(q)]
Front(q) == SubSeq(q, 1, Len(q) - 1)

\* A Node that counts next_id up only when the arena grows.
Node_stale_counter(s, type, tag) ==
    LET popped == IF s.garbage = <<>> THEN UNDEF ELSE Last(s.garbage)
        idx == IF popped = UNDEF \/ popped = 0 THEN Len(s.memory) ELSE popped
        rec == <<type, 0, 0, 0, 0, 0, 0, s.next_id + 1, tag>>
        mem == IF idx = Len(s.memory)
               THEN s.memory \o rec
               ELSE [c \in 1..Len(s.memory) |->
                        IF c \in (idx + 1)..(idx + 9) THEN rec[c - idx]
                        ELSE s.memory[c]]
    IN [s |-> [next_id |-> IF idx = Len(s.memory) THEN s.next_id + 1 ELSE s.next_id,
               memory |-> mem,
               memory_nan |-> s.memory_nan,
               garbage |-> IF s.garbage = <<>> THEN <<>> ELSE Front(s.garbage),
               stats |-> [s.stats EXCEPT !.used_memory = Len(mem)]],
        idx |-> idx]

\* A Node that takes the oldest entry of the free list instead of the newest.
Node_fifo(s, type, tag) ==
    LET popped == IF s.garbage = <<>> THEN UNDEF ELSE Head(s.garbage)
        idx == IF popped = UNDEF \/ popped = 0 THEN Len(s.memory) ELSE popped
        rec == <<type, 0, 0, 0, 0, 0, 0, s.next_id + 1, tag>>
        mem == IF idx = Len(s.memory)
               THEN s.memory \o rec
               ELSE [c \in 1..Len(s.memory) |->
                        IF c \in (idx + 1)..(idx + 9) THEN rec[c - idx]
                        ELSE s.memory[c]]
    IN [s |-> [next_id |-> s.next_id + 1,
               memory |-> mem,
               memory_nan |-> s.memory_nan,
               garbage |-> IF s.garbage = <<>> THEN <<>> ELSE Tail(s.garbage),
               stats |-> [s.stats EXCEPT !.used_memory = Len(mem)]],
        idx |-> idx]

\* Node(type,tag): garbage.pop() || memory.length, nine cells, ++next_id.
Node(s, type, tag) ==
    LET popped == IF s.garbage = <<>> THEN UNDEF ELSE Last(s.garbage)
        idx == IF popped = UNDEF \/ popped = 0 THEN Len(s.memory) ELSE popped
        rec == <<type, 0, 0, 0, 0, 0, 0, s.next_id + 1, tag>>
        mem == IF idx = Len(s.memory)
               THEN s.memory \o rec
               ELSE [s.memory EXCEPT ![idx + 1] = rec[1], ![idx + 2] = rec[2],
                                     ![idx + 3] = rec[3], ![idx + 4] = rec[4],
                                     ![idx + 5] = rec[5], ![idx + 6] = rec[6],
                                     ![idx + 7] = rec[7], ![idx + 8] = rec[8],
                                     ![idx + 9] = rec[9]]
    IN [s |-> [next_id |-> s.next_id + 1,
               memory |-> mem,
               memory_nan |-> s.memory_nan,
               garbage |-> IF s.garbage = <<>> THEN <<>> ELSE Front(s.garbage),
               stats |-> [s.stats EXCEPT !.used_memory = Len(mem)]],
        idx |-> idx]

get_target_port(s, node, port) ==
    IF node = UNDEF \/ port = UNDEF THEN s.memory_nan
    ELSE Cell(s.memory, node + 1 + port)

get_target(s, node, port) ==
    IF node = UNDEF \/ port = UNDEF THEN s.memory_nan
    ELSE Cell(s.memory, node + 4 + port)

\* Through an undefined index both writes go to memory[NaN]: the second,
\* of target, is the one that stays.
half_link(s, node, port, target, target_port) ==
    IF node = UNDEF \/ port = UNDEF THEN [s EXCEPT !.memory_nan = target]
    ELSE [s EXCEPT !.memory = SetCell(SetCell(@, node + 1 + port, target_port),
                                      node + 4 + port, target)]

get_id(s, node) == IF node = UNDEF THEN s.memory_nan ELSE Cell(s.memory, node + 7)

get_tag(s, node) == IF node = UNDEF THEN s.memory_nan ELSE Cell(s.memory, node + 8)

get_type(s, node) == IF node = UNDEF THEN s.memory_nan ELSE Cell(s.memory, node)

\* A link that writes one direction only.
link_one_way(s, a_target, a_port, b_target, b_port) ==
    half_link(s, a_target, a_port, b_target, b_port)

link(s, a_target, a_port, b_target, b_port) ==
    half_link(half_link(s, a_target, a_port, b_target, b_port),
              b_target, b_port, a_target, a_port)

\* link(a, a_port, get_target(b, b_port), get_target_port(b, b_port)).
link_to(s0, a, a_port, b, b_port) ==
    Then(s0, LAMBDA s :
        link(s, a, a_port, get_target(s, b, b_port), get_target_port(s, b, b_port)))

\* link(get_target(a, p), get_target_port(a, p), get_target(b, q), get_target_port(b, q)).
link_targets(s0, a, p, b, q) ==
    Then(s0, LAMBDA s :
        link(s, get_target(s, a, p), get_target_port(s, a, p),
                get_target(s, b, q), get_target_port(s, b, q)))

\* A push that enters a twice and b never.
garbage_push_first_twice(s, a, b) == [s EXCEPT !.garbage = Append(Append(@, a), a)]

\* garbage.push(a, b).
garbage_push(s, a, b) == [s EXCEPT !.garbage = Append(Append(@, a), b)]

\* annihilate with the auxiliary ports joined crosswise.
annihilate_crossed(s, a, b) ==
    garbage_push(link_targets(link_targets(s, a, 1, b, 2), a, 2, b, 1), a, b)

\* annihilate with all four neighbours read before the first link is written.
annihilate_read_first(s, a, b) ==
    garbage_push(
        link(link_targets(s, a, 1, b, 1),
             get_target(s, a, 2), get_target_port(s, a, 2),
             get_target(s, b, 2), get_target_port(s, b, 2)), a, b)

\* annihilate(a, b): the statements run in order, each on the store the
\* previous one left.
annihilate(s, a, b) ==
    garbage_push(link_targets(link_targets(s, a, 1, b, 1), a, 2, b, 2), a, b)

\* The eight link statements of commute followed by garbage.push(dup, nod).
commute_links_then_free(s, dup, nod, dup_b, nod_b) ==
    garbage_push(
        link(link(link(link_to(link_to(link(link_to(link_to(s,
            nod, 0, dup, 1),
            dup, 0, nod, 1),
            nod, 1, dup, 1),
            nod_b, 0, dup, 2),
            dup_b, 0, nod, 2),
            dup, 2, nod_b, 1),
            nod, 2, dup_b, 1),
            nod_b, 2, dup_b, 2),
        dup, nod)

\* The eight link statements of commute, in order.
commute_links(s, dup, nod, dup_b, nod_b) ==
    link(link(link(link_to(link_to(link(link_to(link_to(s,
        nod, 0, dup, 1),
        dup, 0, nod, 1),
        nod, 1, dup, 1),
        nod_b, 0, dup, 2),
        dup_b, 0, nod, 2),
        dup, 2, nod_b, 1),
        nod, 2, dup_b, 1),
        nod_b, 2, dup_b, 2)

\* A copy that keeps the type and takes the tag of Lambda and Apply.
node_copy_untagged(s, node) == Node(s, get_type(s, node), 0)

\* Node(get_type(node), get_tag(node)).
node_copy(s, node) == Node(s, get_type(s, node), get_tag(s, node))

\* commute once dup_b is allocated: nod_b, then the links.
commute_nod_b(s, dup, nod, dup_b) ==
    Then(node_copy(s, nod), LAMBDA n : commute_links(n.s, dup, nod, dup_b, n.idx))

commute(s, dup, nod) ==
    Then(node_copy(s, dup), LAMBDA n : commute_nod_b(n.s, dup, nod, n.idx))

-----------------------------------------------------------------------------
\* Helpers on terms.

\* Whether the variable bound k binders above the root of t occurs in t.
RECURSIVE Occurs(_, _)
Occurs(t, k) ==
    IF t[1] = L_VAR THEN t[2] = k
    ELSE IF t[1] = L_LAM THEN Occurs(t[2], k + 1)
    ELSE Occurs(t[2], k) \/ Occurs(t[3], k)

\* Whether every variable of t is bound within t below `depth` binders.
RECURSIVE ClosedAt(_, _)
ClosedAt(t, depth) ==
    IF t[1] = L_VAR THEN t[2] < depth
    ELSE IF t[1] = L_LAM THEN ClosedAt(t[2], depth + 1)
    ELSE ClosedAt(t[2], depth) /\ ClosedAt(t[3], depth)

\* App(Lam(M), N) with the binder unused in M and N closed: N is discarded.
DiscardsArgument(t) ==
    /\ t[1] = L_APP
    /\ t[2][1] = L_LAM
    /\ ~Occurs(t[2][2], 0)
    /\ ClosedAt(t[3], 0)

-----------------------------------------------------------------------------
\* net_encode.  The recursion of the inner function encode is run on an
\* explicit stack of activation records.  The encoder state is
\* e = [s, next_tag, discarded, stack, ret]: the store, the closure variable
\* next_tag, the ghost set of the nodes allocated while the argument of a
\* discarding application was being encoded, the activation records (the
\* innermost first) and the Link the last finished call returned.

Link(target, port) == [target |-> target, port |-> port]

\* A scope lookup that ignores the index and takes the innermost binder.
ScopeAt_innermost(scope, idx) ==
    IF Len(scope) > 0 THEN scope[1] ELSE UNDEF

\* scope[idx] of a JavaScript array.
ScopeAt(scope, idx) ==
    IF idx >= 0 /\ idx < Len(scope) THEN scope[idx + 1] ELSE UNDEF

\* The node indices of the records allocated at the end of the array
\* between two array lengths.
NodesBetween(from, to) == {i \in from..(to - 1) : (i - from) % 9 = 0}

\* The activation record of encode(node, scope, up_link) on entry.
Activation(node, scope, up_link) ==
    [node |-> node, scope |-> scope, up_link |-> up_link, at |-> "enter",
     idx |-> UNDEF, before |-> 0]

\* A call returns: its record is dropped and the Link is handed to the caller.
Return(e, s, target, port) ==
    [e EXCEPT !.s = s, !.stack = Tail(@), !.ret = Link(target, port)]

\* A call recurses: its own record moves to `at` and the callee's is pushed.
Recurse(e, s, at, idx, call) ==
    [e EXCEPT !.s = s,
              !.stack = <<call, [Head(@) EXCEPT !.at = at, !.idx = idx,
                                               !.before = Len(s.memory)]>>
                        \o Tail(@)]

\* LAM case after both allocations: the three links before the body.
lam_links(s, lam, del, up_link) ==
    link(link(half_link(s, lam, 0, up_link.target, up_link.port),
              lam, 1, del, 0),
         del, 1, del, 2)

\* A LAM case that puts the new binder at the far end of the scope.
encode_lam_scope_appended(e, f, s, del) ==
    LET n == Node(s, LAM, 0)
    IN Recurse(e, lam_links(n.s, n.idx, del, f.up_link), "body", n.idx,
               Activation(f.node[2], f.scope \o <<n.idx>>, Link(n.idx, 2)))

\* LAM case once the Eraser `del` is allocated, up to the recursive call.
encode_lam(e, f, s, del) ==
    LET n == Node(s, LAM, 0)
    IN Recurse(e, lam_links(n.s, n.idx, del, f.up_link), "body", n.idx,
               Activation(f.node[2], <<n.idx>> \o f.scope, Link(n.idx, 2)))

\* APP case once the Apply node is allocated, up to the first recursive call.
encode_app(e, f, s, app) ==
    Recurse(e, half_link(s, app, 2, f.up_link.target, f.up_link.port), "left", app,
            Activation(f.node[2], f.scope, Link(app, 0)))

\* half_link(a, a_port, get_target(b, b_port), get_target_port(b, b_port)).
half_link_to(s, a, a_port, b, b_port) ==
    half_link(s, a, a_port, get_target(s, b, b_port), get_target_port(s, b, b_port))

\* half_link(get_target(b, b_port), get_target_port(b, b_port), a, a_port).
half_link_from(s, b, b_port, a, a_port) ==
    half_link(s, get_target(s, b, b_port), get_target_port(s, b, b_port), a, a_port)

\* The half_link statements without the one that points the previous
\* occupant of the binder's port 1 back at the Duplicator.
dup_links_unspliced(s, dup, lam, up_link) ==
    half_link(
      half_link_to(
        half_link(
          half_link(s, dup, 0, lam, 1),
          dup, 1, up_link.target, up_link.port),
        dup, 2, lam, 1),
      lam, 1, dup, 0)

\* VAR case, second or later reference: the five half_link statements.
dup_links(s, dup, lam, up_link) ==
    half_link(
      half_link_from(
        half_link_to(
          half_link(
            half_link(s, dup, 0, lam, 1),
            dup, 1, up_link.target, up_link.port),
          dup, 2, lam, 1),
        lam, 1, dup, 2),
      lam, 1, dup, 0)

\* A VAR case that gives every Duplicator the same tag.
encode_var_same_tag(e, f, lam) ==
    IF get_type(e.s, get_target(e.s, lam, 1)) = ERA THEN
        Return(e, half_link(e.s, lam, 1, f.up_link.target, f.up_link.port), lam, 1)
    ELSE
        LET n == Node(e.s, DUP, 1)
        IN Return(e, dup_links(n.s, n.idx, lam, f.up_link), n.idx, 1)

\* VAR case once the binder is looked up in the scope.
encode_var(e, f, lam) ==
    IF get_type(e.s, get_target(e.s, lam, 1)) = ERA THEN
        Return(e, half_link(e.s, lam, 1, f.up_link.target, f.up_link.port), lam, 1)
    ELSE
        LET n == Node(e.s, DUP, e.next_tag + 1)
        IN Return([e EXCEPT !.next_tag = e.next_tag + 1],
                  dup_links(n.s, n.idx, lam, f.up_link), n.idx, 1)

\* The switch of encode on entry of a call.
encode_enter(e, f) ==
    IF f.node[1] = L_LAM THEN
        LET n == Node(e.s, ERA, -1)
        IN encode_lam(e, f, n.s, n.idx)
    ELSE IF f.node[1] = L_APP THEN
        LET n == Node(e.s, APP, 0)
        IN encode_app(e, f, n.s, n.idx)
    ELSE encode_var(e, f, ScopeAt(f.scope, f.node[2]))

\* APP case after the right side is encoded: half_link(app,1,right), return
\* Link(app,2).
app_close(e, f) ==
    Return([e EXCEPT !.discarded =
                IF DiscardsArgument(f.node)
                THEN @ \cup NodesBetween(f.before, Len(e.s.memory))
                ELSE @],
           half_link(e.s, f.idx, 1, e.ret.target, e.ret.port), f.idx, 2)

\* One step of encode: the innermost call proceeds to its next recursive call
\* or to its return.
encode_step(e, f) ==
    IF f.at = "enter" THEN encode_enter(e, f)
    ELSE IF f.at = "body" THEN
        Return(e, half_link(e.s, f.idx, 2, e.ret.target, e.ret.port), f.idx, 0)
    ELSE IF f.at = "left" THEN
        Recurse(e, half_link(e.s, f.idx, 0, e.ret.target, e.ret.port), "right",
                f.idx, Activation(f.node[3], f.scope, Link(f.idx, 1)))
    ELSE app_close(e, f)

\* The number of steps of encode on a term: two per LAM, three per APP, one
\* per VAR.
RECURSIVE encode_steps(_)
encode_steps(t) ==
    IF t[1] = L_LAM THEN 2 + encode_steps(t[2])
    ELSE IF t[1] = L_APP THEN 3 + encode_steps(t[2]) + encode_steps(t[3])
    ELSE 1

\* n steps of encode, the first half before the second.
RECURSIVE encode_run(_, _)
encode_run(e, n) ==
    IF n = 0 THEN e
    ELSE IF n = 1 THEN encode_step(e, Head(e.stack))
    ELSE TheOne({encode_run(e1, n - (n \div 2)) : e1 \in {encode_run(e, n \div 2)}})

\* The last statement of net_encode: half_link(net_root, 0, encoded_link).
encode_close(e, net_root) ==
    [s |-> half_link(e.s, net_root, 0, e.ret.target, e.ret.port),
     net |-> net_root,
     discarded |-> e.discarded]

\* net_encode(root): returns the store, the root handle and the ghost set.
net_encode(s, root) ==
    LET n == Node(s, ROT, -1)
    IN encode_close(
         encode_run([s |-> n.s, next_tag |-> 0, discarded |-> {},
                     stack |-> <<Activation(root, <<>>, Link(n.idx, 0))>>,
                     ret |-> Link(UNDEF, UNDEF)],
                    encode_steps(root)),
         n.idx)

\* A clean() that leaves the memory buffer of the previous call in place.
clean_keeps_memory(s) ==
    [next_id |-> 0, memory |-> s.memory, memory_nan |-> s.memory_nan,
     garbage |-> <<>>,
     stats |-> [iterations |-> 0, applications |-> 0, used_memory |-> 0]]

\* clean(): wipes the module-level state.
clean(s) ==
    [next_id |-> 0, memory |-> <<>>, memory_nan |-> UNDEF, garbage |-> <<>>,
     stats |-> [iterations |-> 0, applications |-> 0, used_memory |-> 0]]

-----------------------------------------------------------------------------
\* lambda_calculus.js: the naive reducer and the Church numerals.

\* The outcome of the naive reducer when its recursion exceeds MaxFuel.
DIVERGES == <<0>>

RECURSIVE substitute(_, _, _, _, _)
substitute(value, subs, depth, wrap, t) ==
    IF t[1] = L_VAR THEN
        IF subs /\ t[2] = depth
        THEN substitute(Var(0), FALSE, -1, depth, value)
        ELSE Var(t[2] + (IF t[2] > depth THEN wrap ELSE 0))
    ELSE IF t[1] = L_LAM THEN
        Lam(substitute(value, subs, depth + 1, wrap, t[2]))
    ELSE
        App(substitute(value, subs, depth, wrap, t[2]),
            substitute(value, subs, depth, wrap, t[3]))

\* lambda.reduce(term), with `fuel` bounding the depth of its recursion.
RECURSIVE lambda_reduce(_, _)
lambda_reduce(t, fuel) ==
    IF fuel = 0 THEN DIVERGES
    ELSE IF t[1] = L_VAR THEN t
    ELSE IF t[1] = L_LAM THEN
        LET body == lambda_reduce(t[2], fuel - 1)
        IN IF body = DIVERGES THEN DIVERGES ELSE Lam(body)
    ELSE
        LET left == lambda_reduce(t[2], fuel - 1)
            right == lambda_reduce(t[3], fuel - 1)
        IN IF left = DIVERGES \/ right = DIVERGES THEN DIVERGES
           ELSE IF left[1] = L_LAM
           THEN lambda_reduce(substitute(right, TRUE, 0, -1, left[2]), fuel - 1)
           ELSE App(left, right)

RECURSIVE nat_go(_)
nat_go(x) == IF x = 0 THEN Var(0) ELSE App(Var(1), nat_go(x - 1))

\* nat(x): the Church numeral of x.
nat(x) == Lam(Lam(nat_go(x)))

\* size(term): the number of variables of a term.
RECURSIVE size(_)
size(t) ==
    IF t[1] = L_VAR THEN 1
    ELSE IF t[1] = L_LAM THEN size(t[2])
    ELSE size(t[2]) + size(t[3])

\* nat_(term): reads a Church numeral back.
nat_(t) == size(t) - 1

\* The exponential-modulus term of test.js.
exp_mod ==
    Lam(Lam(Lam(App(App(App(Var(0), Lam(Lam(App(Var(1), Lam(App(App(Var(1),
    Lam(Lam(App(Var(1), App(App(Var(2), Var(1)), Var(0)))))), Var(0))))))),
    Lam(App(Var(0), Lam(Lam(Var(0)))))), Lam(App(App(App(Var(2), Var(3)),
    App(App(App(Var(1), Lam(Lam(Lam(App(Var(2), Lam(App(App(Var(2), Var(0)),
    Var(1)))))))), Lam(Var(0))), Lam(Lam(App(Var(0), Var(1)))))),
    App(App(App(Var(1), Lam(Lam(Var(1)))), Lam(Var(0))), Lam(Var(0)))))))))

-----------------------------------------------------------------------------
\* net_reduce.  Its locals r = [solid, exit, visit, next_target, next_port];
\* r.last is a ghost naming the branch the last pass of the inner loop took
\* and the pair (prev_target, next_target) it met; r.origin is a ghost map
\* from the id of a commute copy to the id of the encoded node it descends
\* from; r.walked is the ghost set of the ids written to exit since the last
\* visit.pop(); r.passes and r.rewrites are ghost counts of the passes of the
\* inner loop and of the calls of annihilate and commute of this invocation.

\* The locals on entry: solid = {}, exit = {}, visit = [[net,0]].
reduce_entry(root) ==
    [solid |-> {}, exit |-> <<>>, visit |-> << <<root, 0>> >>,
     next_target |-> UNDEF, next_port |-> UNDEF, last |-> <<"enter", UNDEF, UNDEF>>,
     origin |-> <<>>, walked |-> {}, passes |-> 0, rewrites |-> 0]

\* The locals once net_reduce has returned (out of scope).
NoLocals == [solid |-> {}, exit |-> <<>>, visit |-> <<>>,
             next_target |-> UNDEF, next_port |-> UNDEF,
             last |-> <<"none", UNDEF, UNDEF>>, origin |-> <<>>, walked |-> {},
             passes |-> 0, rewrites |-> 0]

\* Ghost: the id of the node that net_encode allocated and that the node
\* holding id `id` is a copy of, through any number of commutes (a node that
\* net_encode allocated is its own origin).
OriginOf(r, id) == IF id \in DOMAIN r.origin THEN r.origin[id] ELSE id

\* A lookup that takes port 1 whatever was recorded.
ExitOf_port_one(r, id) == 1

\* exit[id], undefined when the id was never recorded.
ExitOf(r, id) == IF id \in DOMAIN r.exit THEN r.exit[id] ELSE UNDEF

\* One test of the outer loop: return when visit is empty, else pop a probe.
visit_step(s, r) ==
    IF r.visit = <<>> THEN [r |-> r, pc |-> "returned"]
    ELSE LET next == Last(r.visit)
         IN [r |-> [r EXCEPT !.visit = Front(@),
                             !.next_target = get_target(s, next[1], next[2]),
                             !.next_port = get_target_port(s, next[1], next[2]),
                             !.last = <<"pop", UNDEF, UNDEF>>,
                             !.walked = {}],
             pc |-> "inner"]

\* The rewrite of an active pair (prev_target, next_target).
rewrite(s, prev_target, next_target) ==
    IF get_tag(s, prev_target) = get_tag(s, next_target)
    THEN annihilate(s, prev_target, next_target)
    ELSE commute(s, prev_target, next_target)

\* A test that forgets that prev_target must be met at its port 0.
is_active_any_port(s, prev_target, prev_port, next_target) ==
    /\ get_tag(s, prev_target) # -1
    /\ get_tag(s, next_target) # -1

\* A test that forgets the tag of next_target.
is_active_prev_tag_only(s, prev_target, prev_port, next_target) ==
    /\ prev_port = 0
    /\ get_tag(s, prev_target) # -1

\* A test that forgets the tag of prev_target.
is_active_next_tag_only(s, prev_target, prev_port, next_target) ==
    /\ prev_port = 0
    /\ get_tag(s, next_target) # -1

\* The test `prev_port === 0 && tag(prev) !== -1 && tag(next) !== -1`.
is_active(s, prev_target, prev_port, next_target) ==
    /\ prev_port = 0
    /\ get_tag(s, prev_target) # -1
    /\ get_tag(s, next_target) # -1

\* A test that never finds a node solid.
is_solid_never(s, r, node) == FALSE

\* The test `solid[get_id(next_target)]`.
is_solid(s, r, node) == get_id(s, node) \in r.solid

\* One pass of the inner loop `while (next_target !== undefined)`.
probe(s, r) ==
    IF r.next_target = UNDEF THEN [s |-> s, r |-> r, pc |-> "loop1"]
    ELSE
    LET s0 == [s EXCEPT !.stats.iterations = @ + 1]
        next_target == r.next_target
        next_port == r.next_port
        prev_target == get_target(s0, next_target, next_port)
        prev_port == get_target_port(s0, next_target, next_port)
    IN IF is_solid(s0, r, next_target) THEN
           [s |-> s0, r |-> [r EXCEPT !.last = <<"solid", prev_target, next_target>>,
                                  !.passes = @ + 1],
            pc |-> "loop1"]
       ELSE IF next_port = 0 THEN
           IF is_active(s0, prev_target, prev_port, next_target) THEN
               LET s1 == [s0 EXCEPT !.stats.applications = @ + 1]
                   ex == ExitOf(r, get_id(s1, prev_target))
                   exit_target == get_target(s1, prev_target, ex)
                   exit_port == get_target_port(s1, prev_target, ex)
                   rule == IF get_tag(s1, prev_target) = get_tag(s1, next_target)
                           THEN "annihilate" ELSE "commute"
               IN Then(rewrite(s1, prev_target, next_target), LAMBDA s2 :
                   [s |-> s2,
                    r |-> [r EXCEPT !.next_target = get_target(s2, exit_target, exit_port),
                                    !.next_port = get_target_port(s2, exit_target, exit_port),
                                    !.last = <<rule, prev_target, next_target>>,
                                    !.passes = @ + 1,
                                    !.rewrites = @ + 1,
                                    !.origin =
                                        IF rule = "commute"
                                        THEN ((s1.next_id + 1) :>
                                                 OriginOf(r, get_id(s1, prev_target)))
                                             @@ ((s1.next_id + 2) :>
                                                 OriginOf(r, get_id(s1, next_target)))
                                             @@ @
                                        ELSE @],
                    pc |-> "inner"])
           ELSE
               [s |-> s0,
                r |-> [r EXCEPT !.solid = @ \cup {get_id(s0, next_target)},
                                !.visit = @ \o << <<next_target, 2>>, <<next_target, 1>> >>,
                                !.last = <<"mark", prev_target, next_target>>,
                                !.passes = @ + 1],
                pc |-> "loop1"]
       ELSE
           [s |-> s0,
            r |-> [r EXCEPT !.exit = (get_id(s0, next_target) :> next_port) @@ @,
                            !.next_port = get_target_port(s0, next_target, 0),
                            !.next_target = get_target(s0, next_target, 0),
                            !.last = <<"walk", prev_target, next_target>>,
                            !.passes = @ + 1,
                            !.walked = @ \cup {get_id(s0, next_target)}],
            pc |-> "inner"]

-----------------------------------------------------------------------------
\* net_decode.  Its locals d = [stack, retur, node_depth]; the stack holds the
\* live frames stack[0..index], a frame's exit path is a sequence (Cons(head,
\* tail) is <<head>> \o tail and null is <<>>).

Frame(node, port, depth, exit) ==
    [cont |-> 0, node |-> node, port |-> port, depth |-> depth, exit |-> exit,
     left |-> NULL]

\* The locals after the initial CALL on the root's target.
decode_entry(s, root) ==
    [stack |-> <<Frame(get_target(s, root, 0), get_target_port(s, root, 0), 0, NULL)>>,
     retur |-> NULL, node_depth |-> <<>>]

NoFrames == [stack |-> <<>>, retur |-> NULL, node_depth |-> <<>>]

\* RETURN(val): retur = val; --index; the loop ends when the stack is empty.
decode_return(d, val) ==
    [d |-> [d EXCEPT !.retur = val, !.stack = Front(@)],
     pc |-> IF Len(d.stack) = 1 THEN "decoded" ELSE "decode"]

\* One pass of the loop `while (index >= 0)`.  A node of a type the switch
\* has no case for leaves the frame as it is (the loop spins: "hang"); a
\* Duplicator entered through port 0 with a null exit path throws.
decode_step(s, d) ==
    LET index == Len(d.stack)
        st == d.stack[index]
    IN IF st.cont = 0 THEN
           LET id == get_id(s, st.node)
               nd == IF id \in DOMAIN d.node_depth THEN d.node_depth
                     ELSE (id :> st.depth) @@ d.node_depth
               d0 == [d EXCEPT !.node_depth = nd]
               type == get_type(s, st.node)
           IN IF type = DUP THEN
                  IF st.port = 0 /\ st.exit = NULL THEN [d |-> d0, pc |-> "throw"]
                  ELSE
                  LET go_link == IF st.port > 0 THEN 0 ELSE Head(st.exit)
                      exit == IF st.port # 0 THEN <<st.port>> \o st.exit
                              ELSE Tail(st.exit)
                  IN [d |-> [d0 EXCEPT !.stack[index] =
                                Frame(get_target(s, st.node, go_link),
                                      get_target_port(s, st.node, go_link),
                                      st.depth, exit)],
                      pc |-> "decode"]
              ELSE IF type = LAM THEN
                  IF st.port = 1
                  THEN decode_return(d0, Var(st.depth - nd[id] - 1))
                  ELSE [d |-> [d0 EXCEPT !.stack =
                                 Append([@ EXCEPT ![index].cont = 1],
                                        Frame(get_target(s, st.node, 2),
                                              get_target_port(s, st.node, 2),
                                              st.depth + 1, st.exit))],
                        pc |-> "decode"]
              ELSE IF type = APP THEN
                  [d |-> [d0 EXCEPT !.stack =
                            Append([@ EXCEPT ![index].cont = 2],
                                   Frame(get_target(s, st.node, 0),
                                         get_target_port(s, st.node, 0),
                                         st.depth, st.exit))],
                   pc |-> "decode"]
              ELSE [d |-> d0, pc |-> "hang"]
       ELSE IF st.cont = 1 THEN decode_return(d, Lam(d.retur))
       ELSE IF st.cont = 2 THEN
           [d |-> [d EXCEPT !.stack =
                     Append([@ EXCEPT ![index].cont = 3, ![index].left = d.retur],
                            Frame(get_target(s, st.node, 1),
                                  get_target_port(s, st.node, 1),
                                  st.depth, st.exit))],
            pc |-> "decode"]
       ELSE decode_return(d, App(st.left, d.retur))

-----------------------------------------------------------------------------
\* The input terms of the caller.

\* The terms with exactly n constructors whose free variables are below depth.
RECURSIVE TermsOf(_, _)
TermsOf(n, depth) ==
    IF n <= 0 THEN {}
    ELSE IF n = 1 THEN {Var(i) : i \in 0..(depth - 1)}
    ELSE {Lam(b) : b \in TermsOf(n - 1, depth + 1)} \cup
         UNION {{App(l, r) : l \in TermsOf(k, depth), r \in TermsOf(n - 1 - k, depth)} :
                k \in 1..(n - 2)}

ClosedTerms(n) == UNION {TermsOf(k, 0) : k \in 1..n}

\* The number of occurrences in t of the variable bound k binders above it.
RECURSIVE Occurrences(_, _)
Occurrences(t, k) ==
    IF t[1] = L_VAR THEN (IF t[2] = k THEN 1 ELSE 0)
    ELSE IF t[1] = L_LAM THEN Occurrences(t[2], k + 1)
    ELSE Occurrences(t[2], k) + Occurrences(t[3], k)

\* Every binder of t is referenced at most once.
RECURSIVE Affine(_)
Affine(t) ==
    IF t[1] = L_VAR THEN TRUE
    ELSE IF t[1] = L_LAM THEN Occurrences(t[2], 0) <= 1 /\ Affine(t[2])
    ELSE Affine(t[2]) /\ Affine(t[3])

\* No Apply whose left side is a Lambda.
RECURSIVE Normal(_)
Normal(t) ==
    IF t[1] = L_VAR THEN TRUE
    ELSE IF t[1] = L_LAM THEN Normal(t[2])
    ELSE t[2][1] # L_LAM /\ Normal(t[2]) /\ Normal(t[3])

Identity == Lam(Var(0))
Omega == App(Lam(App(Var(0), Var(0))), Lam(App(Var(0), Var(0))))

\* Terms with sharing that are typable in Elementary Affine Logic: the Church
\* numerals, and a numeral applied to a (closed, hence boxable) numeral.
ChurchTerms ==
    {nat(a) : a \in 0..MaxNat} \cup
    {App(nat(a), nat(b)) : a \in 0..MaxNat, b \in 0..MaxNat}

\* Terms that discard an argument holding unreduced (even divergent) work.
DiscardingTerms ==
    {App(Lam(Identity), App(Identity, Identity)),
     App(Lam(Identity), Omega),
     Lam(App(Lam(Var(1)), App(Identity, Identity)))}

\* Terms with self-application, not typable in Elementary Affine Logic.
UntypableTerms ==
    {Omega,
     App(Lam(App(Var(0), Lam(Var(1)))), Lam(App(Var(0), Var(0))))}

\* A sufficient condition for typability in Elementary Affine Logic.
EALTypable(t) == Affine(t) \/ t \in ChurchTerms

\* exp_mod applied to three Church numerals.
ExpMod(a, b, c) == App(App(App(exp_mod, nat(a)), nat(b)), nat(c))

ExpModArgs ==
    {<<a, b, c>> : a \in 1..MaxNat, b \in 1..MaxNat, c \in 1..MaxNat} \cup
    {<<3, 3, 5>>, <<10, 10, 2>>}

\* The terms handed to net_encode directly: closed ones and ones with
\* variables that no enclosing Lambda binds.
OpenTerms == UNION {TermsOf(k, MaxFree) : k \in 1..MaxOpenSize}

Inputs(su) ==
    IF su = "encode" THEN OpenTerms
    ELSE IF su \in {"terms", "roundtrip", "annihilate"} THEN
        ClosedTerms(MaxSize) \cup ChurchTerms \cup DiscardingTerms \cup UntypableTerms
    ELSE IF su = "expmod" THEN {ExpMod(x[1], x[2], x[3]) : x \in ExpModArgs}
    ELSE ClosedTerms(MaxReuseSize) \cup {App(nat(2), nat(2))}

\* The cap on stats.iterations under which the inputs of a suite are run.
IterCap(su) == IF su = "expmod" THEN MaxExpModIter ELSE MaxIter

\* The number of reduce(term) calls the caller makes.
CallsOf(su) == IF su = "reuse" THEN 2 ELSE 1

-----------------------------------------------------------------------------
\* The state machine.  A machine m is the record of the module state and of
\* the running function's position and locals:
\* [s, net, discarded, pc, r, d, results].

Store == [next_id |-> next_id, memory |-> memory, memory_nan |-> memory_nan,
          garbage |-> garbage,
          stats |-> stats]

Machine ==
    [s |-> Store, net |-> net, discarded |-> discarded, pc |-> pc, r |-> rd,
     d |-> dc, results |-> results]

SetStore(s) ==
    /\ next_id' = s.next_id
    /\ memory' = s.memory
    /\ memory_nan' = s.memory_nan
    /\ garbage' = s.garbage
    /\ stats' = s.stats

SetMachine(m) ==
    /\ SetStore(m.s)
    /\ net' = m.net
    /\ discarded' = m.discarded
    /\ pc' = m.pc
    /\ rd' = m.r
    /\ dc' = m.d
    /\ results' = m.results

\* The module as loaded: no reduce(term) call made yet.
Pristine ==
    [s |-> [next_id |-> 0, memory |-> <<>>, memory_nan |-> UNDEF,
            garbage |-> <<>>,
            stats |-> [iterations |-> 0, applications |-> 0, used_memory |-> 0]],
     net |-> UNDEF, discarded |-> {}, pc |-> "idle", r |-> NoLocals,
     d |-> NoFrames, results |-> <<>>]

\* An entry of net_reduce that forgets to reset stats.applications.
reset_counters_iterations_only(s) ==
    [s EXCEPT !.stats.iterations = 0]

\* The statistics on entry of net_reduce.
reset_counters(s) ==
    [s EXCEPT !.stats.applications = 0, !.stats.iterations = 0]

\* net_reduce(net) up to its outer loop.
reduce_enter(m) ==
    [m EXCEPT !.s = reset_counters(@), !.r = reduce_entry(m.net),
              !.pc = "loop1", !.d = NoFrames]

\* reduce(term) after net_encode(term) has returned enc.
reduce_encoded(m, enc) ==
    reduce_enter([m EXCEPT !.s = enc.s, !.net = enc.net,
                           !.discarded = enc.discarded, !.results = <<>>])

\* reduce(term), up to the outer loop of net_reduce: clean(),
\* net_encode(term) and the first statements of net_reduce.
reduce_call(m, t) == reduce_encoded(m, net_encode(clean(m.s), t))

\* The head of net_reduce's outer loop.
reduce_visit(m, o) ==
    [m EXCEPT !.r = IF o.pc = "returned"
                    THEN [NoLocals EXCEPT !.last = <<"return", UNDEF, UNDEF>>,
                                          !.passes = o.r.passes,
                                          !.rewrites = o.r.rewrites]
                    ELSE o.r,
              !.pc = o.pc]

\* One pass of net_reduce's inner loop.
reduce_probe(m, o) == [m EXCEPT !.s = o.s, !.r = o.r, !.pc = o.pc]

\* net_decode(net) is entered.
reduce_decode(m) ==
    [m EXCEPT !.d = decode_entry(m.s, m.net), !.r = NoLocals, !.pc = "decode"]

\* One pass of net_decode's loop; the term it returns is kept in results.
reduce_decoding(m, o) ==
    [m EXCEPT !.pc = o.pc,
              !.d = IF o.pc = "decoded" THEN NoFrames ELSE o.d,
              !.results = IF o.pc = "decoded" THEN Append(@, o.d.retur) ELSE @]

\* The next step of the running function.
reduce_step(m) ==
    IF m.pc = "loop1"
        THEN Then(visit_step(m.s, m.r), LAMBDA o : reduce_visit(m, o))
    ELSE IF m.pc = "inner"
        THEN Then(probe(m.s, m.r), LAMBDA o : reduce_probe(m, o))
    ELSE IF m.pc = "returned" THEN reduce_decode(m)
    ELSE IF m.pc = "decode"
        THEN Then(decode_step(m.s, m.d), LAMBDA o : reduce_decoding(m, o))
    ELSE m

\* Up to n steps of the running function, until reduce returns.
RECURSIVE reduce_run(_, _)
reduce_run(m, n) ==
    IF n = 0 \/ m.pc = "decoded" THEN m
    ELSE IF n = 1 THEN reduce_step(m)
    ELSE TheOne({reduce_run(m1, n - (n \div 2)) : m1 \in {reduce_run(m, n \div 2)}})

\* reduce(t) called on the module as loaded, run to its return.
FreshReduce(t) == reduce_run(reduce_call(Pristine, t), 8 * MaxIter)

InitWith(su) ==
    /\ next_id = 0
    /\ memory = <<>>
    /\ memory_nan = UNDEF
    /\ garbage = <<>>
    /\ stats = [iterations |-> 0, applications |-> 0, used_memory |-> 0]
    /\ suite = su
    /\ calls = 0
    /\ pass = 0
    /\ term = NULL
    /\ history = <<>>
    /\ net = UNDEF
    /\ discarded = {}
    /\ pc = "idle"
    /\ rd = NoLocals
    /\ dc = NoFrames
    /\ results = <<>>

Init == InitWith("terms")

\* The caller calls reduce(t); the call runs up to net_reduce's outer loop.
Call ==
    /\ pc \in {"idle", "decoded"}
    /\ calls < CallsOf(suite)
    /\ \E t \in Inputs(suite) :
          /\ \E m \in {reduce_call(Machine, t)} : SetMachine(m)
          /\ term' = t
    /\ history' = IF calls = 0 THEN <<>> ELSE Append(history, term)
    /\ calls' = calls + 1
    /\ pass' = 1
    /\ UNCHANGED suite

\* net_reduce(net) called again on the net it has already reduced.
ReReduce ==
    /\ pc = "decoded"
    /\ calls = CallsOf(suite)
    /\ pass = 1
    /\ \E m \in {reduce_enter(Machine)} : SetMachine(m)
    /\ pass' = 2
    /\ UNCHANGED <<suite, calls, term, history>>

\* The head of net_reduce's outer loop.
Visit ==
    /\ pc = "loop1"
    /\ \E m \in {reduce_step(Machine)} : SetMachine(m)
    /\ UNCHANGED <<suite, calls, pass, term, history>>

\* One pass of net_reduce's inner loop.
Probe ==
    /\ pc = "inner"
    /\ stats.iterations < IterCap(suite)
    /\ \E m \in {reduce_step(Machine)} : SetMachine(m)
    /\ UNCHANGED <<suite, calls, pass, term, history>>

\* net_decode(net) is entered.
Decode ==
    /\ pc = "returned"
    /\ \E m \in {reduce_step(Machine)} : SetMachine(m)
    /\ UNCHANGED <<suite, calls, pass, term, history>>

\* One pass of net_decode's loop.
DecodeStep ==
    /\ pc = "decode"
    /\ \E m \in {reduce_step(Machine)} : SetMachine(m)
    /\ UNCHANGED <<suite, calls, pass, term, history>>

Next == Call \/ ReReduce \/ Visit \/ Probe \/ Decode \/ DecodeStep

Spec == Init /\ [][Next]_vars

\* The same program under the exp_mod inputs of test.js.
InitExpMod == InitWith("expmod")
SpecExpMod == InitExpMod /\ [][Next]_vars

\* The same program called twice in a row.
InitReuse == InitWith("reuse")
SpecReuse == InitReuse /\ [][Next]_vars

\* The caller calls the exported net_encode(t) on the module as loaded.
Encode ==
    /\ pc = "idle"
    /\ suite \in {"encode", "roundtrip", "annihilate"}
    /\ \E t \in Inputs(suite) :
          /\ \E enc \in {net_encode(Store, t)} :
                /\ SetStore(enc.s)
                /\ net' = enc.net
                /\ discarded' = enc.discarded
          /\ term' = t
    /\ calls' = calls + 1
    /\ pc' = "encoded"
    /\ UNCHANGED <<suite, pass, history, rd, dc, results>>

\* The program under direct calls of net_encode.
InitEncode == InitWith("encode")
NextEncode == Encode
SpecEncode == InitEncode /\ [][NextEncode]_vars

\* The caller hands the net that net_encode returned to the exported
\* net_decode, unreduced.
DecodeEncoded ==
    /\ pc = "encoded"
    /\ suite = "roundtrip"
    /\ \E m \in {reduce_decode(Machine)} : SetMachine(m)
    /\ UNCHANGED <<suite, calls, pass, term, history>>

\* The program under net_decode(net_encode(t)).
InitRoundTrip == InitWith("roundtrip")
NextRoundTrip == Encode \/ DecodeEncoded \/ DecodeStep
SpecRoundTrip == InitRoundTrip /\ [][NextRoundTrip]_vars

\* annihilate(a, b) applied to a net that net_encode returned: a and b are
\* two nodes of equal tag joined principal port to principal port, the pair
\* given in either order.
Annihilate ==
    /\ pc = "encoded"
    /\ suite = "annihilate"
    /\ \E a \in {n \in 0..(Len(memory) - 1) : n % 9 = 0} :
          \E b \in {get_target(Store, a, 0)} :
             /\ a # b
             /\ get_target_port(Store, a, 0) = 0
             /\ get_target(Store, b, 0) = a /\ get_target_port(Store, b, 0) = 0
             /\ get_tag(Store, a) = get_tag(Store, b)
             /\ SetStore(annihilate(Store, a, b))
             /\ rd' = [rd EXCEPT !.last = <<"annihilate", a, b>>]
    /\ pc' = "annihilated"
    /\ UNCHANGED <<suite, calls, pass, term, history, net, discarded, dc, results>>

\* The program under net_encode followed by one annihilate.
InitAnnihilate == InitWith("annihilate")
NextAnnihilate == Encode \/ Annihilate
SpecAnnihilate == InitAnnihilate /\ [][NextAnnihilate]_vars

\* net_decode keeps running while its loop has a pass to make (it is
\* sequential code).
SpecDecodeFair == Init /\ [][Next]_vars /\ WF_vars(Decode \/ DecodeStep)

\* net_reduce keeps running while its loops have a step to take (it is
\* sequential code).
SpecFair == Init /\ [][Next]_vars /\ WF_vars(Visit \/ Probe)

-----------------------------------------------------------------------------
\* Properties.

\* reduce(term) has returned to its caller (first net_reduce of the net).
Returned == pc = "decoded" /\ pass = 1

\* The run is past the point where reduce(term) can still return normally.
Stuck == pc \in {"hang", "throw"} \/ stats.iterations >= IterCap(suite)

\* C1: for every closed EAL-typable input term that the naive reducer
\* normalizes, reduce(term) returns, and returns the term lambda.reduce
\* returns; (\x.x)(\x.x) gives \x.x.
C1_ReductionAgreement ==
    /\ (calls > 0 /\ EALTypable(term) /\ lambda_reduce(term, MaxFuel) # DIVERGES) =>
          /\ ~Stuck
          /\ Returned => results[1] = lambda_reduce(term, MaxFuel)
    /\ (Returned /\ term = App(Identity, Identity)) => results[1] = Identity

\* 2^2 (the numeral 2 applied to the numeral 2) has been reduced, with
\* rewrites, to the numeral 4.
C1_Witness ==
    /\ Returned
    /\ term = App(nat(2), nat(2))
    /\ stats.applications > 0
    /\ results[1] = nat(4)

\* C2: a closed term in beta-normal form is returned unchanged by
\* net_decode(net_reduce(net_encode(t))), and net_reduce applies no rewrite.
C2_NormalRoundTrip ==
    (calls > 0 /\ Normal(term)) =>
        /\ ~Stuck
        /\ pc \in {"returned", "decode", "decoded"} => stats.applications = 0
        /\ Returned => results[1] = term

\* A normal form with a shared binder and an outer variable has made the
\* round trip.
C2_Witness ==
    /\ Returned
    /\ term = Lam(Lam(App(Var(1), App(Var(1), Var(0)))))
    /\ results[1] = term
    /\ stats.iterations > 0

\* C3: a second net_reduce on the reduced net applies zero rewrites, leaves
\* every cell of the memory buffer as it was, and net_decode returns the
\* same term as after the first call.
C3_Idempotent ==
    [][pass' = 2 =>
          /\ memory' = memory
          /\ stats'.applications = 0
          /\ pc' = "decoded" => results'[2] = results'[1]]_vars

\* The second net_reduce of a net that needed rewrites has been decoded.
C3_Witness ==
    /\ pc = "decoded"
    /\ pass = 2
    /\ term = App(nat(2), nat(2))
    /\ Len(garbage) > 0
    /\ stats.iterations > 0
    /\ results = <<nat(4), nat(4)>>

\* a^b mod c, the product reduced at each factor to stay within the integers.
RECURSIVE PowMod(_, _, _)
PowMod(a, b, c) == IF b = 0 THEN 1 % c ELSE (a * PowMod(a, b - 1, c)) % c

\* C4: for a, b, c >= 1, reduce(exp_mod nat(a) nat(b) nat(c)) returns the
\* Church numeral of a^b mod c (read back by nat_); (10,10,2) gives 0 and
\* (3,3,5) gives 2.
C4_ExpMod ==
    \A x \in ExpModArgs :
        term = ExpMod(x[1], x[2], x[3]) =>
            /\ ~Stuck
            /\ Returned => /\ nat_(results[1]) = PowMod(x[1], x[2], x[3])
                           /\ results[1] = nat(PowMod(x[1], x[2], x[3]))

\* exp_mod 3 3 5 has been reduced to the numeral 2.
C4_Witness ==
    /\ Returned
    /\ term = ExpMod(3, 3, 5)
    /\ nat_(results[1]) = 2
    /\ stats.applications > 0

\* C5: reduce(t2) called after reduce(t1) returns the term and leaves the
\* statistics (iterations, applications, used_memory) that reduce(t2) gives
\* when it is the first call made on the module.
C5_NoStateLeak ==
    (Returned /\ calls = 2) =>
        /\ results = FreshReduce(term).results
        /\ stats = FreshReduce(term).s.stats

\* The identity has been reduced after a call that used far more memory, and
\* used_memory counts the three nodes of the second call only.
C5_Witness ==
    /\ Returned
    /\ calls = 2
    /\ history = <<App(nat(2), nat(2))>>
    /\ term = Identity
    /\ results = <<Identity>>
    /\ stats.used_memory = 27

\* The operands of the rewrite the last pass of the inner loop applied.
OperandsOfLast ==
    IF rd.last[1] \in {"annihilate", "commute"} THEN {rd.last[2], rd.last[3]}
    ELSE {}

\* The active pairs among a set of nodes: two nodes joined principal port to
\* principal port, neither tagged -1.
ActivePairsIn(s, nodes) ==
    {p \in nodes \X nodes :
        /\ get_target(s, p[1], 0) = p[2] /\ get_target_port(s, p[1], 0) = 0
        /\ get_target(s, p[2], 0) = p[1] /\ get_target_port(s, p[2], 0) = 0
        /\ get_tag(s, p[1]) # -1 /\ get_tag(s, p[2]) # -1}

\* C6: for an input containing App(Lam(M), N) with the binder unused in M and
\* N closed, no node created while N was encoded is an operand of annihilate
\* or commute in any step of net_reduce, and the active pairs among those
\* nodes stay as they are until net_reduce returns.
C6_DiscardedUntouched ==
    [][(pc \in {"loop1", "inner"}) =>
          /\ OperandsOfLast' \cap discarded = {}
          /\ ActivePairsIn(Store', discarded) = ActivePairsIn(Store, discarded)]_vars

\* net_reduce has returned on (\x.\y.y)((\z.z)(\z.z)) after one rewrite, and
\* the redex of the discarded argument is still an active pair.
C6_Witness ==
    /\ pc = "returned"
    /\ pass = 1
    /\ term = App(Lam(Identity), App(Identity, Identity))
    /\ stats.applications = 1
    /\ ActivePairsIn(Store, discarded) # {}

\* The live nodes: allocated in the memory buffer and not on the free list.
LiveNodes ==
    {a \in 0..(Len(memory) - 1) :
        a % 9 = 0 /\ \A k \in 1..Len(garbage) : garbage[k] # a}

\* Port p of node a targets a port that targets port p of node a.
Symmetric(a, p) ==
    /\ get_target(Store, get_target(Store, a, p), get_target_port(Store, a, p)) = a
    /\ get_target_port(Store, get_target(Store, a, p), get_target_port(Store, a, p)) = p

\* C7 as stated: once net_encode has returned and after every step of
\* net_reduce, every port of every live node is linked symmetrically.
C7_AllLiveSymmetric ==
    calls > 0 => \A a \in LiveNodes : \A p \in 0..2 : Symmetric(a, p)

\* C7 amended: once net_encode has returned and after every step of
\* net_reduce, every port of every live node is linked symmetrically, except
\* ports 1 and 2 of the Root and port 0 of an Eraser.
C7_LiveSymmetricButUnused ==
    calls > 0 =>
        \A a \in LiveNodes : \A p \in 0..2 :
            \/ get_type(Store, a) = ROT /\ p \in {1, 2}
            \/ get_type(Store, a) = ERA /\ p = 0
            \/ Symmetric(a, p)

\* A commute has just been completed on 2^2, the net holds live Duplicators,
\* and the Eraser of a referenced binder still points at a port that does not
\* point back.
C7_Witness ==
    /\ term = App(nat(2), nat(2))
    /\ pc = "inner"
    /\ rd.last[1] = "commute"
    /\ \E a \in LiveNodes : get_type(Store, a) = DUP
    /\ \E a \in LiveNodes : get_type(Store, a) = ERA /\ ~Symmetric(a, 0)

\* C8: on every closed EAL-typable input (the affine terms among them), a
\* running net_reduce eventually finds its visit stack empty and returns.
C8_Terminates ==
    (calls > 0 /\ EALTypable(term) /\ pc \in {"loop1", "inner"})
        ~> (pc = "returned" /\ rd.visit = <<>>)

\* net_reduce has returned on the affine term (\x.\y.x)(\z.z) after its
\* rewrite.
C8_Witness ==
    /\ pc = "returned"
    /\ pass = 1
    /\ Affine(term)
    /\ term = App(Lam(Lam(Var(1))), Identity)
    /\ stats.applications = 1
    /\ rd.visit = <<>>

\* C9: in every step from the entry of net_reduce on, the handle stays the
\* one net_encode returned, the node at it keeps type ROT and tag -1, it is
\* not an operand of the rewrite just applied and it is not on the free list.
C9_RootKept ==
    [][(calls > 0 /\ calls' = calls) =>
          /\ net' = net
          /\ get_type(Store', net') = ROT
          /\ get_tag(Store', net') = -1
          /\ net' \notin OperandsOfLast'
          /\ \A k \in 1..Len(garbage') : garbage'[k] # net']_vars

\* net_reduce has returned on (\x.x)(\x.x): the active pair was annihilated
\* and freed, and the Root is where it was, now pointing at the Lambda.
C9_Witness ==
    /\ pc = "returned"
    /\ pass = 1
    /\ term = App(Identity, Identity)
    /\ Len(garbage) = 2
    /\ net = 0
    /\ get_type(Store, net) = ROT
    /\ get_type(Store, get_target(Store, net, 0)) = LAM

\* The cursor of net_reduce is at port 0 of next_target, that port leads to
\* port 0 of prev_target, and one of the two nodes is an Eraser.
EraserPairAtCursor ==
    /\ pc = "inner"
    /\ rd.next_target # UNDEF
    /\ rd.next_port = 0
    /\ get_target_port(Store, rd.next_target, 0) = 0
    /\ ERA \in {get_type(Store, rd.next_target),
                get_type(Store, get_target(Store, rd.next_target, 0))}

\* Node n is on the free list g.
Freed(g, n) == \E k \in 1..Len(g) : g[k] = n

\* C10 as stated: the pass of net_reduce that meets an Eraser joined principal
\* port to principal port with another node pushes both nodes to the free
\* list.
C10_EraseRule ==
    [][EraserPairAtCursor =>
          /\ Freed(garbage', rd.next_target)
          /\ Freed(garbage', get_target(Store, rd.next_target, 0))]_vars

\* C10: the pass of net_reduce that meets an Eraser joined principal port to
\* principal port with another node rewrites nothing: memory, the free list and
\* the count of applications stay as they are; the node at the cursor, unless
\* already solid, becomes solid and its ports 2 and 1 are pushed on visit.
C10_EraserPairLeft ==
    [][EraserPairAtCursor =>
          /\ memory' = memory
          /\ garbage' = garbage
          /\ stats'.applications = stats.applications
          /\ IF get_id(Store, rd.next_target) \in rd.solid
             THEN rd'.solid = rd.solid /\ rd'.visit = rd.visit
             ELSE /\ rd'.solid = rd.solid \cup {get_id(Store, rd.next_target)}
                  /\ rd'.visit = rd.visit \o << <<rd.next_target, 2>>,
                                                <<rd.next_target, 1>> >>]_vars

\* net_reduce has just passed an Eraser whose port 0 and a tagged node's
\* port 0 lead to each other: the Eraser was marked solid and both nodes are
\* still in memory, off the free list.
C10_Witness ==
    /\ pc = "loop1"
    /\ rd.last[1] = "mark"
    /\ get_type(Store, rd.last[3]) = ERA
    /\ get_tag(Store, rd.last[2]) # -1
    /\ get_target(Store, rd.last[3], 0) = rd.last[2]
    /\ get_target_port(Store, rd.last[3], 0) = 0
    /\ get_target(Store, rd.last[2], 0) = rd.last[3]
    /\ get_target_port(Store, rd.last[2], 0) = 0
    /\ get_id(Store, rd.last[3]) \in rd.solid
    /\ ~Freed(garbage, rd.last[2])
    /\ ~Freed(garbage, rd.last[3])

-----------------------------------------------------------------------------
\* The rewrite rules, seen from a step of net_reduce: s is the store when the
\* pass of the inner loop starts and t the store when it ends.

\* Port p of node n and port q of node m point at each other in store s.
Joined(s, n, p, m, q) ==
    /\ get_target(s, n, p) = m /\ get_target_port(s, n, p) = q
    /\ get_target(s, m, q) = n /\ get_target_port(s, m, q) = p

\* The four ports that ports 1 and 2 of a and of b point at lie on nodes
\* other than a and b.
NeighboursOutside(s, a, b) ==
    \A i \in {1, 2} : /\ get_target(s, a, i) \notin {a, b}
                      /\ get_target(s, b, i) \notin {a, b}

\* The two cells of the memory buffer (as indices of the sequence) that hold
\* the link of port p of node n.
LinkCells(n, p) == {n + 2 + p, n + 5 + p}

\* The cells that hold the links of the ports a's and b's ports 1 and 2
\* point at.
NeighbourCells(s, a, b) ==
    UNION {LinkCells(get_target(s, n, i), get_target_port(s, n, i)) :
           n \in {a, b}, i \in {1, 2}}

\* What annihilate(a, b) is to have done between s and t.
Annihilated(s, t, a, b) ==
    /\ \A i \in {1, 2} :
          Joined(t, get_target(s, a, i), get_target_port(s, a, i),
                    get_target(s, b, i), get_target_port(s, b, i))
    /\ t.garbage = s.garbage \o <<a, b>>
    /\ Len(t.memory) = Len(s.memory)
    /\ \A c \in 1..Len(s.memory) :
          c \notin NeighbourCells(s, a, b) => t.memory[c] = s.memory[c]

\* C11: a pass of net_reduce that annihilates a pair (a, b) whose ports 1 and
\* 2 point outside a and b joins a's former port-1 neighbour with b's, a's
\* former port-2 neighbour with b's, appends a and b to the free list and
\* changes no other cell of memory.
C11_Annihilate ==
    [][(rd'.last[1] = "annihilate"
        /\ NeighboursOutside(Store, rd'.last[2], rd'.last[3])) =>
          Annihilated(Store, Store', rd'.last[2], rd'.last[3])]_vars

\* (\x.\y.x)(\z.z) has just been annihilated: the Apply and the Lambda are
\* the last two entries of the free list, their own cells still show the
\* four outside neighbours, and those are joined pairwise.
C11_Witness ==
    /\ rd.last[1] = "annihilate"
    /\ term = App(Lam(Lam(Var(1))), Identity)
    /\ stats.applications = 1
    /\ garbage = <<rd.last[2], rd.last[3]>>
    /\ NeighboursOutside(Store, rd.last[2], rd.last[3])
    /\ \A i \in {1, 2} :
          Joined(Store, get_target(Store, rd.last[2], i),
                        get_target_port(Store, rd.last[2], i),
                        get_target(Store, rd.last[3], i),
                        get_target_port(Store, rd.last[3], i))

\* The node indices of a store.
NodesOf(s) == {n \in 0..(Len(s.memory) - 1) : n % 9 = 0}

\* Node n holds a record in t that Node wrote between s and t.
Allocated(s, t, n) ==
    /\ n \in NodesOf(t)
    /\ n \in NodesOf(s) => get_id(t, n) # get_id(s, n)

\* What commute(x, y) is to have done between s and t; x2 and y2 are the
\* nodes that ports 2 of y and of x point at afterwards.
Commuted(s, t, x, y) ==
    LET x2 == get_target(t, y, 2)
        y2 == get_target(t, x, 2)
    IN /\ t.next_id = s.next_id + 2
       /\ {n \in NodesOf(t) : Allocated(s, t, n)} = {x2, y2}
       /\ x2 # y2
       /\ get_type(t, x2) = get_type(s, x) /\ get_tag(t, x2) = get_tag(s, x)
       /\ get_type(t, y2) = get_type(s, y) /\ get_tag(t, y2) = get_tag(s, y)
       /\ get_type(t, x) = get_type(s, x) /\ get_tag(t, x) = get_tag(s, x)
       /\ get_type(t, y) = get_type(s, y) /\ get_tag(t, y) = get_tag(s, y)
       /\ Joined(t, get_target(s, x, 1), get_target_port(s, x, 1), y, 0)
       /\ Joined(t, get_target(s, x, 2), get_target_port(s, x, 2), y2, 0)
       /\ Joined(t, get_target(s, y, 1), get_target_port(s, y, 1), x, 0)
       /\ Joined(t, get_target(s, y, 2), get_target_port(s, y, 2), x2, 0)
       /\ Joined(t, x, 1, y, 1)
       /\ Joined(t, x, 2, y2, 1)
       /\ Joined(t, y, 2, x2, 1)
       /\ Joined(t, y2, 2, x2, 2)

\* C12: a pass of net_reduce that commutes a pair (x, y) whose ports 1 and 2
\* point outside x and y allocates exactly two nodes, x2 with the type and tag
\* of x and y2 with those of y; the former neighbours of x face port 0 of y
\* and of y2, those of y face port 0 of x and of x2; ports 1 and 2 of x, x2
\* are joined with ports 1 and 2 of y, y2 pairwise; every one of these links
\* is written in both directions.
C12_Commute ==
    [][(rd'.last[1] = "commute"
        /\ NeighboursOutside(Store, rd'.last[2], rd'.last[3])) =>
          Commuted(Store, Store', rd'.last[2], rd'.last[3])]_vars

\* 2 applied to 2 has just commuted a Duplicator with a Lambda: the two
\* newest ids belong to a Duplicator and a Lambda that face the two
\* originals.
C12_Witness ==
    /\ rd.last[1] = "commute"
    /\ term = App(nat(2), nat(2))
    /\ {get_type(Store, rd.last[2]), get_type(Store, rd.last[3])} = {DUP, LAM}
    /\ get_id(Store, get_target(Store, rd.last[3], 2)) = next_id - 1
    /\ get_id(Store, get_target(Store, rd.last[2], 2)) = next_id
    /\ get_type(Store, get_target(Store, rd.last[3], 2)) = get_type(Store, rd.last[2])
    /\ get_type(Store, get_target(Store, rd.last[2], 2)) = get_type(Store, rd.last[3])
    /\ Joined(Store, rd.last[2], 1, rd.last[3], 1)

\* C13 as stated: after a pass of net_reduce that commutes a pair, both nodes
\* of the pair are on the free list.
C13_CommuteFreesOriginals ==
    [][rd'.last[1] = "commute" =>
          /\ Freed(garbage', rd'.last[2])
          /\ Freed(garbage', rd'.last[3])]_vars

\* C13: after a pass of net_reduce that commutes a pair, neither node of the
\* pair is on the free list and both keep their records: the free list only
\* lost the slots that the two allocations popped from its end.
C13_CommuteKeepsOriginals ==
    [][rd'.last[1] = "commute" =>
          /\ ~Freed(garbage', rd'.last[2])
          /\ ~Freed(garbage', rd'.last[3])
          /\ ~Allocated(Store, Store', rd'.last[2])
          /\ ~Allocated(Store, Store', rd'.last[3])
          /\ Len(garbage') = (IF Len(garbage) > 2 THEN Len(garbage) - 2 ELSE 0)
          /\ garbage' = SubSeq(garbage, 1, Len(garbage'))]_vars

\* A pair has just been commuted with an empty free list: the two operands
\* are still in memory, each facing a former neighbour of the other, and the
\* free list is still empty.
C13_Witness ==
    /\ rd.last[1] = "commute"
    /\ garbage = <<>>
    /\ get_target_port(Store, rd.last[2], 0) # 0
    /\ get_target_port(Store, rd.last[3], 0) # 0
    /\ Joined(Store, rd.last[2], 1, rd.last[3], 1)
    /\ get_id(Store, rd.last[2]) < next_id - 1
    /\ get_id(Store, rd.last[3]) < next_id - 1

-----------------------------------------------------------------------------
\* The net that net_encode returns.

\* net_encode has just returned and net_reduce has not yet taken a step.
Encoded == calls > 0 /\ pass = 1 /\ pc = "loop1" /\ rd.last[1] = "enter"

\* The numbers of occurrences of the binders of t, in the order in which
\* encode meets the binders.
RECURSIVE BinderCounts(_)
BinderCounts(t) ==
    IF t[1] = L_VAR THEN <<>>
    ELSE IF t[1] = L_LAM THEN <<Occurrences(t[2], 0)>> \o BinderCounts(t[2])
    ELSE BinderCounts(t[2]) \o BinderCounts(t[3])

\* The nodes of a type.
NodesOfType(s, type) == {n \in NodesOf(s) : get_type(s, n) = type}

\* The i-th Lambda node in order of allocation (of index, in a store without
\* reuse).
NthLam(s, i) ==
    CHOOSE n \in NodesOfType(s, LAM) :
        Cardinality({m \in NodesOfType(s, LAM) : m < n}) = i - 1

\* Port p of node n is joined to port 0 of the first of a chain of k
\* Duplicators, each joined by port 1 to a port of a Root, Lambda or Apply
\* node and by port 2 to the next; the last one's port 2 (port p itself when
\* k = 0) is joined to a port of a Root, Lambda or Apply node.
RECURSIVE DupChain(_, _, _, _)
DupChain(s, n, p, k) ==
    LET tn == get_target(s, n, p)
        tp == get_target_port(s, n, p)
    IN /\ Joined(s, n, p, tn, tp)
       /\ IF k = 0 THEN get_type(s, tn) \in {ROT, LAM, APP}
          ELSE /\ get_type(s, tn) = DUP
               /\ tp = 0
               /\ get_type(s, get_target(s, tn, 1)) \in {ROT, LAM, APP}
               /\ Joined(s, tn, 1, get_target(s, tn, 1), get_target_port(s, tn, 1))
               /\ DupChain(s, tn, 2, k - 1)

\* The Lambda node lam of a binder without occurrence: port 1 joined to port
\* 0 of the Eraser allocated just before it, whose ports 1 and 2 are joined.
Unclaimed(s, lam) ==
    /\ get_type(s, lam - 9) = ERA
    /\ Joined(s, lam, 1, lam - 9, 0)
    /\ Joined(s, lam - 9, 1, lam - 9, 2)

RECURSIVE SumSeq(_)
SumSeq(q) == IF q = <<>> THEN 0 ELSE Head(q) + SumSeq(Tail(q))

\* C14: when net_encode returns on a closed term, the Lambda node of a
\* binder with k >= 1 occurrences heads a chain of exactly k - 1 Duplicators
\* from its port 1, the Lambda node of a binder without occurrence is still
\* joined to its own Eraser, and the net holds as many Duplicators as the sum
\* of max(0, k - 1) over the binders.
C14_EncodedSharing ==
    Encoded =>
        LET ks == BinderCounts(term)
            extra == [i \in 1..Len(ks) |-> IF ks[i] > 1 THEN ks[i] - 1 ELSE 0]
        IN /\ Cardinality(NodesOfType(Store, LAM)) = Len(ks)
           /\ \A i \in 1..Len(ks) :
                 IF ks[i] = 0 THEN Unclaimed(Store, NthLam(Store, i))
                 ELSE DupChain(Store, NthLam(Store, i), 1, ks[i] - 1)
           /\ Cardinality(NodesOfType(Store, DUP)) = SumSeq(extra)

\* net_encode has returned on \x.\y.y (y y): y has three occurrences and a
\* chain of two Duplicators, x has none and keeps its Eraser.
C14_Witness ==
    /\ Encoded
    /\ term = Lam(Lam(App(Var(0), App(Var(0), Var(0)))))
    /\ BinderCounts(term) = <<0, 3>>
    /\ Cardinality(NodesOfType(Store, DUP)) = 2
    /\ DupChain(Store, NthLam(Store, 2), 1, 2)
    /\ Unclaimed(Store, NthLam(Store, 1))

\* Every link cell of the store holds a port of a node of the store, and
\* memory[NaN] was never written.
StoreIntact(s) ==
    /\ s.memory_nan = UNDEF
    /\ \A n \in NodesOf(s) : \A p \in 0..2 :
          /\ get_target(s, n, p) \in NodesOf(s)
          /\ get_target_port(s, n, p) \in 0..2

\* C15: when net_encode is given a term with a variable that no enclosing
\* Lambda binds, the call ends in an error outcome and every link of the
\* store is between nodes of the store.
C15_MalformedSignalled ==
    (calls > 0 /\ ~ClosedAt(term, 0)) => (pc = "invalid" /\ StoreIntact(Store))

-----------------------------------------------------------------------------
\* Allocation.

\* The node that holds id i in store s.
NodeWithId(s, i) == CHOOSE n \in NodesOf(s) : get_id(s, n) = i

\* The index Node returns for a free list g and an arena of length len, the
\* free list it leaves and the arena length it leaves.
ExpectedSlot(g, len) ==
    IF g # <<>> THEN [idx |-> Last(g), garbage |-> Front(g), len |-> len]
    ELSE [idx |-> len, garbage |-> <<>>, len |-> len + 9]

\* C16: the two allocations of a commute each take the last entry of the
\* free list and leave the arena as long as it was, or, the free list being
\* empty, take the arena length and lengthen the arena by nine cells; the
\* allocations of net_encode, made with an empty free list, lie one after
\* the other from index 0; stats.used_memory is the arena length.
C16_AllocationLIFO ==
    [][/\ rd'.last[1] = "commute" =>
            LET first == ExpectedSlot(garbage, Len(memory))
                second == ExpectedSlot(first.garbage, first.len)
            IN /\ NodeWithId(Store', next_id + 1) = first.idx
               /\ NodeWithId(Store', next_id + 2) = second.idx
               /\ garbage' = second.garbage
               /\ Len(memory') = second.len
               /\ stats'.used_memory = Len(memory')
       /\ Encoded' =>
            /\ Len(memory') = 9 * next_id'
            /\ \A i \in 1..next_id' : get_id(Store', 9 * (i - 1)) = i
            /\ stats'.used_memory = Len(memory')]_vars

\* 2 applied to 2 has just commuted with two slots on the free list: the two
\* newest ids sit in slots below the end of the arena, the newer one below
\* the older one, and the arena is shorter than nine cells per id issued.
C16_Witness ==
    /\ rd.last[1] = "commute"
    /\ term = App(nat(2), nat(2))
    /\ Len(memory) < 9 * next_id
    /\ NodeWithId(Store, next_id) < NodeWithId(Store, next_id - 1)
    /\ NodeWithId(Store, next_id - 1) + 9 < Len(memory)
    /\ stats.used_memory = Len(memory)

\* The ids net_reduce holds in its solid and exit maps.
KnownIds == rd.solid \cup DOMAIN rd.exit

\* C17: from the return of net_encode on, after every step: no two live
\* nodes hold the same id and no live node holds an id above next_id; every
\* record allocated by the step holds an id above the value next_id had before
\* it; no id of the solid and exit maps is held by two live nodes.
C17_IdsUnique ==
    [][calls' > 0 =>
          /\ \A n \in LiveNodes' : \A m \in LiveNodes' :
                n # m => get_id(Store', n) # get_id(Store', m)
          /\ \A n \in LiveNodes' : get_id(Store', n) \in 1..next_id'
          /\ calls' = calls =>
                /\ next_id' >= next_id
                /\ \A n \in NodesOf(Store') :
                      Allocated(Store, Store', n) => get_id(Store', n) > next_id
          /\ \A i \in KnownIds' :
                Cardinality({n \in LiveNodes' : get_id(Store', n) = i}) <= 1]_vars

\* 2 applied to 2 has just commuted into reused slots while net_reduce holds
\* ids in both maps: the newest id sits in a slot below older ids, and every
\* id of the maps is still held by exactly one live node.
C17_Witness ==
    /\ rd.last[1] = "commute"
    /\ term = App(nat(2), nat(2))
    /\ Len(memory) < 9 * next_id
    /\ \E n \in LiveNodes : get_id(Store, n) < get_id(Store, NodeWithId(Store, next_id))
                            /\ n > NodeWithId(Store, next_id)
    /\ rd.solid # {}
    /\ DOMAIN rd.exit # {}
    /\ \A i \in rd.solid : Cardinality({n \in LiveNodes : get_id(Store, n) = i}) = 1

-----------------------------------------------------------------------------
\* Tags of Duplicators.

\* The live Duplicators.
LiveDups == {n \in LiveNodes : get_type(Store, n) = DUP}

\* The id of the encoded node that live node n descends from.
Origin(n) == OriginOf(rd, get_id(Store, n))

\* C18: when net_encode returns, the Duplicators hold pairwise different
\* tags, none 0 or -1; in every state of the net_reduce that follows, a live
\* Duplicator's tag is neither 0 nor -1 and two live Duplicators hold the same
\* tag only if they descend, through commute copies, from the same Duplicator
\* of net_encode; in particular the two operands of an annihilate, if
\* Duplicators, descend from the same one.
C18_DupTags ==
    [][(pass' = 1 /\ pc' \in {"loop1", "inner"}) =>
          /\ \A n \in LiveDups' : get_tag(Store', n) \notin {0, -1}
          /\ Encoded' =>
                \A n \in LiveDups' : \A m \in LiveDups' :
                    n # m => get_tag(Store', n) # get_tag(Store', m)
          /\ \A n \in LiveDups' : \A m \in LiveDups' :
                get_tag(Store', n) = get_tag(Store', m) => Origin(n)' = Origin(m)'
          /\ (rd'.last[1] = "annihilate"
              /\ get_type(Store, rd'.last[2]) = DUP
              /\ get_type(Store, rd'.last[3]) = DUP) =>
                OriginOf(rd, get_id(Store, rd'.last[2])) =
                OriginOf(rd, get_id(Store, rd'.last[3]))]_vars

\* During the reduction of 2 applied to 2: two live Duplicators with the same
\* tag, one a commute copy of the other, and a third with another tag and
\* another origin.
C18_Witness ==
    /\ pass = 1
    /\ pc = "inner"
    /\ term = App(nat(2), nat(2))
    /\ \E n \in LiveDups : \E m \in LiveDups : \E k \in LiveDups :
          /\ n # m
          /\ get_tag(Store, n) = get_tag(Store, m)
          /\ Origin(n) = Origin(m)
          /\ Origin(m) = get_id(Store, m)
          /\ Origin(n) # get_id(Store, n)
          /\ get_tag(Store, k) # get_tag(Store, n)
          /\ Origin(k) # Origin(n)

-----------------------------------------------------------------------------
\* The cursor of net_reduce.

\* C19: in a pass of net_reduce that rewrites a pair (prev, next), exit holds
\* 1 or 2 for the id of prev, written since the last visit.pop(); the node
\* that port of prev points at is neither prev nor next; and the pass leaves
\* the cursor at the port which that node's port is linked to after the
\* rewrite, the visit stack as it was, inside the inner loop.
C19_ExitContinuation ==
    [][(pc = "inner" /\ rd'.last[1] \in {"annihilate", "commute"}) =>
          LET prev == rd'.last[2]
              nxt == rd'.last[3]
              pid == get_id(Store, prev)
          IN /\ pid \in DOMAIN rd.exit
             /\ rd.exit[pid] \in {1, 2}
             /\ pid \in rd.walked
             /\ LET exit_target == get_target(Store, prev, rd.exit[pid])
                    exit_port == get_target_port(Store, prev, rd.exit[pid])
                IN /\ exit_target \notin {prev, nxt}
                   /\ rd'.next_target = get_target(Store', exit_target, exit_port)
                   /\ rd'.next_port = get_target_port(Store', exit_target, exit_port)
             /\ rd'.visit = rd.visit
             /\ pc' = "inner"]_vars

\* (\x.\y.x)(\z.z) has just been annihilated: the walk had entered the Apply
\* by its port 2 from the Root, and the cursor is now at the inner Lambda,
\* which the Root's port 0 points at, with nothing popped from visit.
C19_Witness ==
    /\ rd.last[1] = "annihilate"
    /\ term = App(Lam(Lam(Var(1))), Identity)
    /\ get_type(Store, rd.last[2]) = APP
    /\ rd.exit[get_id(Store, rd.last[2])] = 2
    /\ get_id(Store, rd.last[2]) \in rd.walked
    /\ rd.next_target = get_target(Store, net, 0)
    /\ get_type(Store, rd.next_target) = LAM
    /\ rd.visit = <<>>
    /\ pc = "inner"

\* C20: a node whose id is in solid when a step of net_reduce starts is not
\* an operand of the rewrite the step applies, is not on the free list after
\* the step, keeps its record, and its port 0 points where it pointed.
C20_SolidUntouched ==
    [][(pc \in {"loop1", "inner"}) =>
          \A n \in NodesOf(Store) :
              get_id(Store, n) \in rd.solid =>
                  /\ n \notin OperandsOfLast'
                  /\ ~Freed(garbage', n)
                  /\ get_id(Store', n) = get_id(Store, n)
                  /\ get_target(Store', n, 0) = get_target(Store, n, 0)
                  /\ get_target_port(Store', n, 0) = get_target_port(Store, n, 0)]_vars

\* In \x.(\y.y) x the outer Lambda was marked solid first and the redex of
\* its body has just been annihilated: the Lambda is still what the Root
\* points at, port 0 to port 0, and is not on the free list.
C20_Witness ==
    /\ rd.last[1] = "annihilate"
    /\ term = Lam(App(Identity, Var(0)))
    /\ get_type(Store, get_target(Store, net, 0)) = LAM
    /\ get_id(Store, get_target(Store, net, 0)) \in rd.solid
    /\ Joined(Store, net, 0, get_target(Store, net, 0), 0)
    /\ ~Freed(garbage, get_target(Store, net, 0))
    /\ get_target(Store, net, 0) \notin OperandsOfLast

-----------------------------------------------------------------------------
\* Statistics.

\* net_reduce is running or has just returned.
InNetReduce == calls > 0 /\ pc \in {"loop1", "inner", "returned"}

\* C21: both counters are 0 when net_reduce enters its outer loop; while it
\* runs and when it returns stats.iterations is the number of passes of the
\* inner loop and stats.applications the number of annihilate and commute
\* calls of this invocation; a step adds one to applications exactly when it
\* pushes to the free list or allocates; iterations >= applications in
\* every state.
C21_Counters ==
    [][/\ (InNetReduce' /\ rd'.last[1] = "enter") =>
              stats'.iterations = 0 /\ stats'.applications = 0
       /\ InNetReduce' =>
              /\ stats'.iterations = rd'.passes
              /\ stats'.applications = rd'.rewrites
       /\ (InNetReduce /\ InNetReduce' /\ rd'.last[1] # "enter") =>
              /\ stats'.applications - stats.applications \in {0, 1}
              /\ stats'.applications = stats.applications + 1
                    <=> (garbage' # garbage \/ next_id' # next_id)
       /\ stats'.iterations >= stats'.applications]_vars

\* The second net_reduce on the net of 2 applied to 2 has returned: the first
\* had counted rewrites, this one counted passes and no rewrite.
C21_Witness ==
    /\ pc = "returned"
    /\ pass = 2
    /\ term = App(nat(2), nat(2))
    /\ results = <<nat(4)>>
    /\ rd.passes > 0
    /\ rd.rewrites = 0
    /\ stats.iterations = rd.passes
    /\ stats.applications = 0

-----------------------------------------------------------------------------
\* net_decode.

\* C22: net_decode of the net that net_encode has just returned, not
\* reduced, ends and returns the term that was encoded.
C22_EncodeDecode ==
    (suite = "roundtrip" /\ calls > 0) =>
        /\ pc \notin {"hang", "throw"}
        /\ pc = "decoded" => results = <<term>>

\* \x.\y.y (y x) applied to \z.z went through net_encode and net_decode
\* unreduced: a binder with two occurrences and a redex, read back as is.
C22_Witness ==
    /\ suite = "roundtrip"
    /\ pc = "decoded"
    /\ stats.iterations = 0
    /\ term = Lam(Lam(App(Var(0), App(Var(0), Var(1)))))
    /\ Cardinality(NodesOfType(Store, DUP)) = 1
    /\ results = <<term>>

-----------------------------------------------------------------------------
\* The part of the store that the Root leads to.

\* The nodes found from the nodes of `frontier` by following the links of
\* ports 0, 1 and 2, together with `seen`.
RECURSIVE ReachFrom(_, _, _)
ReachFrom(s, seen, frontier) ==
    IF frontier = {} THEN seen
    ELSE LET found == seen \cup frontier
             targets == {get_target(s, n, p) : n \in frontier, p \in 0..2}
         IN ReachFrom(s, found, (targets \cap NodesOf(s)) \ found)

\* The nodes reachable from root.
Reachable(s, root) == ReachFrom(s, {}, {root})

\* C23: after every step of net_reduce, no index occurs twice in garbage and
\* no port of a node reachable from the Root points at a node in garbage;
\* no record that the step allocated lies on a node that was reachable from
\* the Root before the step.
C23_FreeListSound ==
    [][InNetReduce' =>
          /\ \A i \in 1..Len(garbage') : \A j \in 1..Len(garbage') :
                i # j => garbage'[i] # garbage'[j]
          /\ \A n \in Reachable(Store', net') : \A p \in 0..2 :
                ~Freed(garbage', get_target(Store', n, p))
          /\ InNetReduce =>
                \A n \in NodesOf(Store') :
                    Allocated(Store, Store', n) => n \notin Reachable(Store, net)]_vars

\* 2 applied to 2 has just commuted into two slots taken from the free list:
\* both are reachable from the Root now, other slots remain on the free list,
\* and none of those is reachable.
C23_Witness ==
    /\ rd.last[1] = "commute"
    /\ term = App(nat(2), nat(2))
    /\ Len(memory) < 9 * next_id
    /\ NodeWithId(Store, next_id) + 9 < Len(memory)
    /\ NodeWithId(Store, next_id) \in Reachable(Store, net)
    /\ NodeWithId(Store, next_id - 1) \in Reachable(Store, net)
    /\ garbage # <<>>
    /\ \A k \in 1..Len(garbage) : garbage[k] \notin Reachable(Store, net)

\* The ports of node n that a link statement ever names: the Root is
\* allocated with ports 1 and 2 as Node initialises them and only its port 0
\* is linked.
LinkedPorts(s, n) == IF get_type(s, n) = ROT THEN {0} ELSE 0..2

IdentityLam(s, n) == get_type(s, n) = LAM /\ Joined(s, n, 1, n, 2)

\* The pair <<a, b>> annihilated between s and t was an Apply and an
\* identity Lambda, in either order, and the port that the Apply's port 1
\* pointed at in s is joined in t with the port that the Apply's port 2
\* pointed at in s.
ArgumentReturned(s, t, a, b) ==
    \A app \in {a, b} : \A lam \in {a, b} \ {app} :
        (get_type(s, app) = APP /\ IdentityLam(s, lam)) =>
            Joined(t, get_target(s, app, 1), get_target_port(s, app, 1),
                      get_target(s, app, 2), get_target_port(s, app, 2))

\* C25: annihilating an Apply against an identity Lambda, the pair given in
\* either order, leaves the Apply's argument neighbour and its return
\* neighbour pointing at each other.
C25_IdentityAnnihilate ==
    [][rd'.last[1] = "annihilate" =>
          ArgumentReturned(Store, Store', rd'.last[2], rd'.last[3])]_vars

\* (\x.x)(\y.y) has been encoded and annihilate called with the identity
\* Lambda first and the Apply second: the argument, itself an identity
\* Lambda, is joined with the Root, and the cell of the Lambda's port 2,
\* which the first link rewrote, shows the argument.
C25_Witness ==
    /\ pc = "annihilated"
    /\ term = App(Identity, Identity)
    /\ get_type(Store, rd.last[2]) = LAM
    /\ get_type(Store, rd.last[3]) = APP
    /\ get_target(Store, rd.last[2], 1) = rd.last[2]
    /\ get_target_port(Store, rd.last[2], 1) = 2
    /\ get_target(Store, rd.last[2], 2) = get_target(Store, rd.last[3], 1)
    /\ get_target(Store, rd.last[3], 2) = net
    /\ IdentityLam(Store, get_target(Store, rd.last[3], 1))
    /\ Joined(Store, net, 0, get_target(Store, rd.last[3], 1), 0)

\* The frame net_decode's loop is about to work on.
TopFrame == Last(dc.stack)

\* net_decode is about to look at the type of a node (case 0 of its switch).
AtNode == pc = "decode" /\ TopFrame.cont = 0

\* C26: once net_reduce has returned on an input term, net_decode returns:
\* every node it looks at is a Lambda, an Apply or a Duplicator, a
\* Duplicator it enters through port 0 finds a non-empty exit path, and its
\* loop ends.
C26_DecodeTotal ==
    /\ [](AtNode =>
            /\ get_type(Store, TopFrame.node) \notin {ROT, ERA}
            /\ get_type(Store, TopFrame.node) \in {LAM, APP, DUP}
            /\ (get_type(Store, TopFrame.node) = DUP /\ TopFrame.port = 0) =>
                  TopFrame.exit # NULL)
    /\ [](pc \notin {"hang", "throw"})
    /\ (pc = "returned") ~> (pc = "decoded")

\* 2^2 has been reduced and net_decode, on its way from a variable to its
\* binder, enters a Duplicator of the result through port 0 with a
\* non-empty exit path.
C26_Witness ==
    /\ AtNode
    /\ term = App(nat(2), nat(2))
    /\ stats.applications > 0
    /\ get_type(Store, TopFrame.node) = DUP
    /\ TopFrame.port = 0
    /\ TopFrame.exit # NULL

====
